---- MODULE Spec2Model ----
(***************************************************************************)
(* A model of the two chunkers of the repository:                          *)
(*   - adaptive_chunk (src/previous-scripts/ref/chunker.py): recursive     *)
(*     decomposition, hard cut, greedy packer, sentence overlap;           *)
(*   - chunk_content_with_langchain (src/generate_chunks.py): the two      *)
(*     passes that turn the splitter's text chunks into chunk records.     *)
(*                                                                         *)
(* A Python str is a sequence of one-character strings.  The token counter *)
(* is the heuristic one of _build_token_counter (the branch taken when     *)
(* tiktoken cannot be imported): max(1, len(s) // 4).                      *)
(***************************************************************************)
EXTENDS Integers, Sequences, FiniteSets, TLC

VARIABLES
    \* ---- adaptive_chunk ----
    pc,                 \* position in adaptive_chunk
    text,               \* argument text
    max_tokens,         \* argument max_tokens
    min_tokens,         \* argument min_tokens
    overlap_sentences,  \* argument overlap_sentences
    structure,          \* argument structure
    parts,              \* local parts (list of pieces)
    i,                  \* local i (0-based index into parts)
    buf,                \* local buf
    buf_tokens,         \* local buf_tokens
    chunks,             \* local chunks (list of dicts)
    j,                  \* loop index of the overlap pass
    packed,             \* history: the chunks as flushed, with their pieces
    pieces0,            \* history: the piece list the decomposition returned
    \* ---- chunk_content_with_langchain ----
    lc_pc,              \* position in chunk_content_with_langchain
    slug,               \* metadata['slug']
    text_chunks,        \* what text_splitter.split_text(content) returned
    lc_i,               \* loop index of the running pass (0-based)
    temp_chunks,        \* local temp_chunks
    lc_chunks           \* local chunks (the records returned)

ac_vars == <<pc, text, max_tokens, min_tokens, overlap_sentences, structure,
             parts, i, buf, buf_tokens, chunks, j, packed, pieces0>>
lc_vars == <<lc_pc, slug, text_chunks, lc_i, temp_chunks, lc_chunks>>
vars == <<ac_vars, lc_vars>>

----------------------------------------------------------------------------
(* Bounds of the model *)

\* number of vocabulary segments an input text is made of, at most
MaxSegs == 3
\* largest max_tokens argument tried
MaxTokens == 2
\* largest overlap_sentences argument tried
MaxOverlap == 1
\* length of the list parts at which the model stops following its growth
MaxParts == 6
\* number of text chunks the langchain splitter returns, at most
MaxChunks == 4

----------------------------------------------------------------------------
(* Python str and list primitives *)

Max(a, b) == IF a >= b THEN a ELSE b

\* the characters \s matches and str.strip()/str.split() treat as blank
IsSpace(c) == c \in {" ", "\n", "\t", "\r"}

RECURSIVE LStrip(_)
LStrip(s) ==
    IF s = <<>> THEN s
    ELSE IF IsSpace(Head(s)) THEN LStrip(Tail(s)) ELSE s

RECURSIVE RStrip(_)
RStrip(s) ==
    IF s = <<>> THEN s
    ELSE IF IsSpace(s[Len(s)]) THEN RStrip(SubSeq(s, 1, Len(s) - 1)) ELSE s

\* str.strip()
Strip(s) == RStrip(LStrip(s))

\* the length of the run of blank characters of s that starts at index k
RECURSIVE SpaceRun(_, _)
SpaceRun(s, k) ==
    IF k > Len(s) \/ ~IsSpace(s[k]) THEN 0 ELSE 1 + SpaceRun(s, k + 1)

\* the length of the run of non-blank characters of s that starts at index k
RECURSIVE WordRun(_, _)
WordRun(s, k) ==
    IF k > Len(s) \/ IsSpace(s[k]) THEN 0 ELSE 1 + WordRun(s, k + 1)

\* str.split(): the maximal runs of non-blank characters, from index k on
RECURSIVE WordsFrom(_, _)
WordsFrom(s, k) ==
    IF k > Len(s) THEN <<>>
    ELSE IF IsSpace(s[k]) THEN WordsFrom(s, k + 1)
    ELSE LET n == WordRun(s, k)
         IN  <<SubSeq(s, k, k + n - 1)>> \o WordsFrom(s, k + n)

Words(s) == WordsFrom(s, 1)

\* sep.join(list)
RECURSIVE Join(_, _)
Join(list, sep) ==
    IF list = <<>> THEN <<>>
    ELSE IF Len(list) = 1 THEN list[1]
    ELSE list[1] \o sep \o Join(Tail(list), sep)

\* a filter that keeps the blank pieces too (the mutant of NonBlank)
NonBlankKeepsAll(list) == list

\* [p for p in list if p.strip()]
RECURSIVE NonBlank(_)
NonBlank(list) ==
    IF list = <<>> THEN <<>>
    ELSE IF Strip(Head(list)) # <<>> THEN <<Head(list)>> \o NonBlank(Tail(list))
    ELSE NonBlank(Tail(list))

\* [b for b in (s.strip() for s in list) if b]
RECURSIVE StripAll(_)
StripAll(list) ==
    IF list = <<>> THEN <<>>
    ELSE IF Strip(Head(list)) # <<>> THEN <<Strip(Head(list))>> \o StripAll(Tail(list))
    ELSE StripAll(Tail(list))

\* whether the characters of pat stand in s from index k on
Matches(s, k, pat) ==
    /\ k + Len(pat) - 1 <= Len(s)
    /\ \A m \in 1..Len(pat) : s[k + m - 1] = pat[m]

\* (?m)^ : index k is the start of a line of s
LineStart(s, k) == k = 1 \/ s[k - 1] = "\n"

----------------------------------------------------------------------------
(* Token counting *)

\* the heuristic counter: max(1, len(s) // 4)
count_tokens(s) == Max(1, Len(s) \div 4)

\* _too_big's comparison, for a count n
OverBudget(n, limit) == n > limit

----------------------------------------------------------------------------
(* re.split at zero-width matches *)

\* the pieces of s between the cut positions (a cut at k falls before s[k]),
\* scanning from index k with the running piece starting at index start;
\* a cut at index 1 leaves an empty first piece, as re.split does
RECURSIVE PiecesAt(_, _, _, _)
PiecesAt(s, cuts, start, k) ==
    IF k > Len(s) THEN <<SubSeq(s, start, Len(s))>>
    ELSE IF k \in cuts
         THEN <<SubSeq(s, start, k - 1)>> \o PiecesAt(s, cuts, k, k + 1)
         ELSE PiecesAt(s, cuts, start, k + 1)

----------------------------------------------------------------------------
(* The structural splitters *)

\* (?=^#{1,6}\s) at index k: a line start, 1 to 6 '#', then a blank character
HeadingAt(s, k) ==
    /\ LineStart(s, k)
    /\ \E n \in 1..6 :
          /\ k + n <= Len(s)
          /\ \A m \in 0..(n - 1) : s[k + m] = "#"
          /\ IsSpace(s[k + n])

split_by_markdown_headings(txt) ==
    LET s == Strip(txt)
        cuts == {k \in 1..Len(s) : HeadingAt(s, k)}
    IN  NonBlank(PiecesAt(s, cuts, 1, 1))

\* the length of the run of newlines of s that starts at index k
RECURSIVE NewlineRun(_, _)
NewlineRun(s, k) ==
    IF k > Len(s) \/ s[k] # "\n" THEN 0 ELSE 1 + NewlineRun(s, k + 1)

\* re.split(r"\n{2,}", s) from index k on, the running piece being cur
RECURSIVE ParagraphPieces(_, _, _)
ParagraphPieces(s, k, cur) ==
    IF k > Len(s) THEN <<cur>>
    ELSE IF NewlineRun(s, k) >= 2
         THEN <<cur>> \o ParagraphPieces(s, k + NewlineRun(s, k), <<>>)
         ELSE ParagraphPieces(s, k + 1, Append(cur, s[k]))

split_by_paragraph(txt) ==
    NonBlank(ParagraphPieces(Strip(txt), 1, <<>>))

\* [.!?]
SentenceEnd == {".", "!", "?"}

\* [A-Z0-9"'(] and the opening curly quote: the members the inputs can hold
SentenceStart == {"A", "B", "C", "0", "1", "\"", "'", "("}

\* _SENT_RE matches at index k: (?<=\S[.!?])\s+(?=[A-Z0-9"'(])
SentBreakAt(s, k) ==
    /\ k >= 3
    /\ k <= Len(s)
    /\ IsSpace(s[k])
    /\ s[k - 1] \in SentenceEnd
    /\ ~IsSpace(s[k - 2])
    /\ k + SpaceRun(s, k) <= Len(s)
    /\ s[k + SpaceRun(s, k)] \in SentenceStart

\* _SENT_RE.split(s) from index k on, the running piece being cur
RECURSIVE SentPieces(_, _, _)
SentPieces(s, k, cur) ==
    IF k > Len(s) THEN <<cur>>
    ELSE IF SentBreakAt(s, k)
         THEN <<cur>> \o SentPieces(s, k + SpaceRun(s, k), <<>>)
         ELSE SentPieces(s, k + 1, Append(cur, s[k]))

\* the backquote character (U+0060), which a TLA+ string cannot hold
Backquote == "bq"

\* the three backquotes that open and close a fenced code block
Fence == <<Backquote, Backquote, Backquote>>

\* the least index >= k at which a fence stands in s, 0 when there is none
RECURSIVE FenceFrom(_, _)
FenceFrom(s, k) ==
    IF k + 2 > Len(s) THEN 0
    ELSE IF Matches(s, k, Fence) THEN k ELSE FenceFrom(s, k + 1)

\* the body of split_sentences from index k on (k - 1 is the code's i):
\* each match of (FENCE[\s\S]*?FENCE) is one block, the text between the matches
\* is stripped and split at the sentence breaks
RECURSIVE SentenceBlocks(_, _)
SentenceBlocks(s, k) ==
    LET open == FenceFrom(s, k)
        close == IF open = 0 THEN 0 ELSE FenceFrom(s, open + 3)
    IN  IF close = 0
        THEN \* tail = text[i:]
             IF k > Len(s) THEN <<>>
             ELSE SentPieces(Strip(SubSeq(s, k, Len(s))), 1, <<>>)
        ELSE (IF open = k THEN <<>>
              ELSE SentPieces(Strip(SubSeq(s, k, open - 1)), 1, <<>>))
             \o <<SubSeq(s, open, close + 2)>>
             \o SentenceBlocks(s, close + 3)

split_sentences(txt) == StripAll(SentenceBlocks(txt, 1))

split_by_sentence(txt) == split_sentences(txt)

\* (def |class |function |export |const |let |var )
Keywords == {
    <<"d", "e", "f", " ">>,
    <<"c", "l", "a", "s", "s", " ">>,
    <<"f", "u", "n", "c", "t", "i", "o", "n", " ">>,
    <<"e", "x", "p", "o", "r", "t", " ">>,
    <<"c", "o", "n", "s", "t", " ">>,
    <<"l", "e", "t", " ">>,
    <<"v", "a", "r", " ">>}

\* (?=^\s*(def |...)) at index k: a line start, blanks, then a keyword
SymbolAt(s, k) ==
    /\ LineStart(s, k)
    /\ \E kw \in Keywords : Matches(s, k + SpaceRun(s, k), kw)

\* group 1 of the match at index k
SymbolGroup(s, k) ==
    CHOOSE kw \in Keywords : Matches(s, k + SpaceRun(s, k), kw)

\* re.split with the capturing group of the pattern: each piece before a match
\* is followed by the keyword the group captured
RECURSIVE SymbolPieces(_, _, _)
SymbolPieces(s, start, k) ==
    IF k > Len(s) THEN <<SubSeq(s, start, Len(s))>>
    ELSE IF SymbolAt(s, k)
         THEN <<SubSeq(s, start, k - 1), SymbolGroup(s, k)>>
              \o SymbolPieces(s, k, k + 1)
         ELSE SymbolPieces(s, start, k + 1)

split_by_code_symbols(txt) ==
    NonBlank(SymbolPieces(Strip(txt), 1, 1))

\* the splitter chain of a structure profile, by the splitters' names
Splitters(struct) ==
    IF struct = "markdown" THEN <<"headings", "paragraph", "sentence">>
    ELSE IF struct = "code" THEN <<"code_symbols", "paragraph", "sentence">>
    ELSE <<"paragraph", "sentence">>

\* rules[0](s)
ApplyRule(rule, s) ==
    CASE rule = "headings" -> split_by_markdown_headings(s)
      [] rule = "paragraph" -> split_by_paragraph(s)
      [] rule = "sentence" -> split_by_sentence(s)
      [] rule = "code_symbols" -> split_by_code_symbols(s)

----------------------------------------------------------------------------
(* Hard cut and recursive decomposition *)

\* the loop of _hard_cut over the words still to read
RECURSIVE HardCutLoop(_, _, _, _)
HardCutLoop(words, cur, cur_tokens, max_toks) ==
    IF words = <<>>
    THEN IF cur # <<>> THEN <<Strip(Join(cur, <<" ">>))>> ELSE <<>>
    ELSE LET w == Head(words)
             wtok == count_tokens(w \o <<" ">>)
         IN  IF OverBudget(cur_tokens + wtok, max_toks) /\ cur # <<>>
             THEN <<Strip(Join(cur, <<" ">>))>>
                  \o HardCutLoop(Tail(words), <<w>>, wtok, max_toks)
             ELSE HardCutLoop(Tail(words), Append(cur, w), cur_tokens + wtok, max_toks)

_hard_cut(s, max_toks) == HardCutLoop(Words(s), <<>>, 0, max_toks)

_too_big(s, max_toks) == OverBudget(count_tokens(s), max_toks)

RECURSIVE _split_with_rules(_, _, _)
RECURSIVE SplitEach(_, _, _)

\* the for loop of _split_with_rules over the parts of a unit
SplitEach(ps, rules, max_toks) ==
    IF ps = <<>> THEN <<>>
    ELSE (IF _too_big(Head(ps), max_toks)
          THEN _split_with_rules(Head(ps), rules, max_toks)
          ELSE <<Head(ps)>>)
         \o SplitEach(Tail(ps), rules, max_toks)

_split_with_rules(s, rules, max_toks) ==
    IF rules = <<>> THEN _hard_cut(s, max_toks)
    ELSE LET ps == ApplyRule(Head(rules), s)
         IN  IF Len(ps) = 1
             THEN IF _too_big(s, max_toks)
                  THEN _split_with_rules(s, Tail(rules), max_toks)
                  ELSE <<s>>
             ELSE SplitEach(ps, Tail(rules), max_toks)

\* The units _split_with_rules reaches by its structural splitters alone:
\* those it returns as they are (cut = FALSE) and those it hands to _hard_cut
\* when the rules are exhausted (cut = TRUE).
RECURSIVE SplitUnits(_, _, _)
RECURSIVE SplitUnitsEach(_, _, _)

SplitUnitsEach(ps, rules, max_toks) ==
    IF ps = <<>> THEN <<>>
    ELSE (IF _too_big(Head(ps), max_toks)
          THEN SplitUnits(Head(ps), rules, max_toks)
          ELSE <<[unit |-> Head(ps), cut |-> FALSE]>>)
         \o SplitUnitsEach(Tail(ps), rules, max_toks)

SplitUnits(s, rules, max_toks) ==
    IF rules = <<>> THEN <<[unit |-> s, cut |-> TRUE]>>
    ELSE LET ps == ApplyRule(Head(rules), s)
         IN  IF Len(ps) = 1
             THEN IF _too_big(s, max_toks)
                  THEN SplitUnits(s, Tail(rules), max_toks)
                  ELSE <<[unit |-> s, cut |-> FALSE]>>
             ELSE SplitUnitsEach(ps, Tail(rules), max_toks)

----------------------------------------------------------------------------
(* adaptive_chunk: the inputs *)

\* the segments the input texts are made of: a word of six letters (one
\* token), a word of eight letters (two tokens), a space, a paragraph break,
\* a sentence break, a code fence, a heading marker and a code keyword
Vocab == {
    <<"a", "a", "a", "a", "a", "a">>,
    <<"a", "a", "a", "a", "a", "a", "a", "a">>,
    <<" ">>,
    <<"\n", "\n">>,
    <<".", " ", "B">>,
    Fence,
    <<"#", " ">>,
    <<"d", "e", "f", " ">>}

\* the texts made of at most n segments
RECURSIVE TextsOf(_)
TextsOf(n) ==
    IF n = 0 THEN {<<>>}
    ELSE LET shorter == TextsOf(n - 1)
         IN  shorter \cup {t \o v : t \in shorter, v \in Vocab}

Texts == TextsOf(MaxSegs)

Structures == {"markdown", "plain", "code"}

----------------------------------------------------------------------------
(* adaptive_chunk: the packer, the overlap pass and the metadata *)

\* parts[i]
piece == parts[i + 1]

\* count_tokens(piece)
ptok == count_tokens(piece)

\* a test that leaves one token of the budget unused (the mutant of Fits)
FitsStrictly(bt, pt, limit) == bt + pt < limit

\* the test of line 137 (and of line 145): the piece fits the accumulator
Fits(bt, pt, limit) == bt + pt <= limit

\* list.insert(pos, x), pos 0-based
InsertAt(list, pos, x) ==
    SubSeq(list, 1, pos) \o <<x>> \o SubSeq(list, pos + 1, Len(list))

\* for sub in subs: list.insert(pos, sub)
RECURSIVE InsertEach(_, _, _)
InsertEach(list, pos, subs) ==
    IF subs = <<>> THEN list
    ELSE InsertEach(InsertAt(list, pos, Head(subs)), pos, Tail(subs))

\* the body the flush records for a buffer: "\n\n".join(buf).strip()
Body(b) == Strip(Join(b, <<"\n", "\n">>))

\* chunks after flush() of buffer b
Flushed(cs, b) ==
    IF b = <<>> THEN cs
    ELSE Append(cs, [id |-> Len(cs), text |-> Body(b),
                     n_tokens |-> count_tokens(Body(b))])

\* the history of flushes after flush() of buffer b holding bt counted tokens
FlushedHistory(h, b, bt) ==
    IF b = <<>> THEN h
    ELSE Append(h, [text |-> Body(b), n_tokens |-> count_tokens(Body(b)),
                    pieces |-> b, sum |-> bt])

\* list[-n:] for n >= 1
LastN(list, n) == SubSeq(list, Max(1, Len(list) - n + 1), Len(list))

\* the text line 160 gives chunk cur, from the text of the chunk before it
Overlapped(prev_text, cur_text, n) ==
    Strip(Join(LastN(split_sentences(prev_text), n), <<" ">>)
          \o <<" ">> \o cur_text)

Init ==
    /\ pc = "split"
    /\ text \in Texts
    /\ max_tokens \in 1..MaxTokens
    /\ min_tokens \in 1..max_tokens
    /\ overlap_sentences \in 0..MaxOverlap
    /\ structure \in Structures
    /\ parts = <<>>
    /\ i = 0
    /\ buf = <<>>
    /\ buf_tokens = 0
    /\ chunks = <<>>
    /\ j = 0
    /\ packed = <<>>
    /\ pieces0 = <<>>
    /\ lc_pc = "idle"
    /\ slug = "none"
    /\ text_chunks = <<>>
    /\ lc_i = 0
    /\ temp_chunks = <<>>
    /\ lc_chunks = <<>>

\* line 111: parts = _split_with_rules(text, splitters)
Decompose ==
    /\ pc = "split"
    /\ parts' = _split_with_rules(text, Splitters(structure), max_tokens)
    /\ pieces0' = parts'
    /\ pc' = "pack"
    /\ UNCHANGED <<text, max_tokens, min_tokens, overlap_sentences, structure,
                   i, buf, buf_tokens, chunks, j, packed, lc_vars>>

\* lines 130-135: the piece is over max_tokens; its hard-cut pieces are each
\* inserted at i + 1 and the loop moves on.  The list grows by at least one
\* entry per such iteration; MaxParts stands for the number of entries the
\* memory holds, and the insertion that exceeds it raises MemoryError.
PackOversize ==
    /\ pc = "pack"
    /\ i < Len(parts)
    /\ OverBudget(ptok, max_tokens)
    /\ IF Len(parts) + Len(_hard_cut(piece, max_tokens)) <= MaxParts
       THEN /\ parts' = InsertEach(parts, i + 1, _hard_cut(piece, max_tokens))
            /\ i' = i + 1
            /\ pc' = pc
       ELSE /\ pc' = "MemoryError"
            /\ UNCHANGED <<parts, i>>
    /\ UNCHANGED <<text, max_tokens, min_tokens, overlap_sentences, structure,
                   buf, buf_tokens, chunks, j, packed, pieces0, lc_vars>>

\* lines 137-140: the piece fits, it joins the accumulator
PackAppend ==
    /\ pc = "pack"
    /\ i < Len(parts)
    /\ ~OverBudget(ptok, max_tokens)
    /\ Fits(buf_tokens, ptok, max_tokens)
    /\ buf' = Append(buf, piece)
    /\ buf_tokens' = buf_tokens + ptok
    /\ i' = i + 1
    /\ UNCHANGED <<pc, text, max_tokens, min_tokens, overlap_sentences, structure,
                   parts, chunks, j, packed, pieces0, lc_vars>>

\* a look-ahead merge that takes the overflowing piece whenever the buffer
\* is under mn (line 145 without its test of the budget)
LookAheadMergeAnyway(mn) ==
    /\ buf_tokens < mn
    /\ i < Len(parts)

\* lines 143 and 145: the condition of the look-ahead merge, for a value mn of
\* min_tokens, in the else branch of line 141
LookAheadMerge(mn) ==
    /\ buf_tokens < mn
    /\ i < Len(parts)
    /\ Fits(buf_tokens, ptok, max_tokens)

\* lines 141-152 run with mn as min_tokens: the piece does not fit; the
\* look-ahead merge of lines 143-148, else flush()
PackOverflowWith(mn) ==
    /\ pc = "pack"
    /\ i < Len(parts)
    /\ ~OverBudget(ptok, max_tokens)
    /\ ~Fits(buf_tokens, ptok, max_tokens)
    /\ IF LookAheadMerge(mn)
       THEN /\ buf' = Append(buf, piece)
            /\ buf_tokens' = buf_tokens + ptok
            /\ i' = i + 1
            /\ UNCHANGED <<chunks, packed>>
       ELSE /\ chunks' = Flushed(chunks, buf)
            /\ packed' = FlushedHistory(packed, buf, buf_tokens)
            /\ buf' = <<>>
            /\ buf_tokens' = 0
            /\ i' = i
    /\ UNCHANGED <<pc, text, max_tokens, min_tokens, overlap_sentences, structure,
                   parts, j, pieces0, lc_vars>>

\* lines 141-152 as the call runs them, with its argument min_tokens
PackOverflow == PackOverflowWith(min_tokens)

\* line 154 and the guard of line 157: the loop is over, the last flush()
FinalFlush ==
    /\ pc = "pack"
    /\ i >= Len(parts)
    /\ chunks' = Flushed(chunks, buf)
    /\ packed' = FlushedHistory(packed, buf, buf_tokens)
    /\ buf' = <<>>
    /\ buf_tokens' = 0
    /\ j' = 1
    /\ pc' = IF overlap_sentences > 0 /\ Len(chunks') > 1 THEN "overlap" ELSE "meta"
    /\ UNCHANGED <<text, max_tokens, min_tokens, overlap_sentences, structure,
                   parts, i, pieces0, lc_vars>>

\* lines 158-161: one iteration of the overlap loop, on chunks[j]
OverlapStep ==
    /\ pc = "overlap"
    /\ j < Len(chunks)
    /\ LET t == Overlapped(chunks[j].text, chunks[j + 1].text, overlap_sentences)
       IN  chunks' = [chunks EXCEPT ![j + 1] =
                         [id |-> chunks[j + 1].id, text |-> t,
                          n_tokens |-> count_tokens(t)]]
    /\ j' = j + 1
    /\ pc' = IF j + 1 < Len(chunks) THEN "overlap" ELSE "meta"
    /\ UNCHANGED <<text, max_tokens, min_tokens, overlap_sentences, structure,
                   parts, i, buf, buf_tokens, packed, pieces0, lc_vars>>

\* lines 164-167: the metadata of every chunk, and the return
AttachMeta ==
    /\ pc = "meta"
    /\ chunks' = [k \in 1..Len(chunks) |->
                     [id |-> chunks[k].id, text |-> chunks[k].text,
                      n_tokens |-> chunks[k].n_tokens,
                      meta |-> [structure |-> structure]]]
    /\ pc' = "done"
    /\ UNCHANGED <<text, max_tokens, min_tokens, overlap_sentences, structure,
                   parts, i, buf, buf_tokens, j, packed, pieces0, lc_vars>>

Next ==
    \/ Decompose
    \/ PackOversize
    \/ PackAppend
    \/ PackOverflow
    \/ FinalFlush
    \/ OverlapStep
    \/ AttachMeta

Spec == Init /\ [][Next]_vars

----------------------------------------------------------------------------
(* chunk_content_with_langchain *)

MIN_CHUNK_TOKENS == 50

\* count_tokens(clean_markdown_text(chunk_text)) of a text chunk: the values
\* tried, on both sides of the test of line 72
CleanedTokens == {0, MIN_CHUNK_TOKENS - 1, MIN_CHUNK_TOKENS}

\* the lists of at most n text chunks; chunk_text is the chunk's own text
\* (told apart by its position), cleaned_tokens the count of its cleaned text
RECURSIVE SplitTexts(_)
SplitTexts(n) ==
    IF n = 0 THEN {<<>>}
    ELSE LET shorter == SplitTexts(n - 1)
         IN  shorter \cup
             {Append(t, [chunk_text |-> Len(t), cleaned_tokens |-> c]) :
                 t \in shorter, c \in CleanedTokens}

Slugs == {"first-post", "second-post"}

None == "None"

\* f"{content_type}:{slug}"
ParentId(content_type, sl) == <<content_type, sl>>

\* f"{parent_id}::ch{n}"
ChunkId(parent_id, n) == <<parent_id, n>>

\* the index of the enumeration as the chunk number (the mutant of ChunkNum)
ChunkNumByIndex(idx, temp) == idx

\* line 82: 'chunk_num': len(temp_chunks), at index idx of the enumeration
ChunkNum(idx, temp) == Len(temp)

\* lines 212-223 of create_chunk: the fields of the record that carry the
\* linkage and the chunk's text
create_chunk(content, sl, chunk_num, content_type, prev_id, next_id, markdown) ==
    [id |-> ChunkId(ParentId(content_type, sl), chunk_num),
     parent_id |-> ParentId(content_type, sl),
     prev_id |-> prev_id,
     next_id |-> next_id,
     display_markdown |-> markdown,
     chunk_number |-> chunk_num,
     content_type |-> content_type]

InitLC ==
    /\ lc_pc = "first"
    /\ slug \in Slugs
    /\ text_chunks \in SplitTexts(MaxChunks)
    /\ lc_i = 0
    /\ temp_chunks = <<>>
    /\ lc_chunks = <<>>
    /\ pc = "idle"
    /\ text = <<>>
    /\ max_tokens = 1
    /\ min_tokens = 1
    /\ overlap_sentences = 0
    /\ structure = "markdown"
    /\ parts = <<>>
    /\ i = 0
    /\ buf = <<>>
    /\ buf_tokens = 0
    /\ chunks = <<>>
    /\ j = 0
    /\ packed = <<>>
    /\ pieces0 = <<>>

\* lines 68-73: the cleaned chunk is under MIN_CHUNK_TOKENS, continue
FirstPassSkip ==
    /\ lc_pc = "first"
    /\ lc_i < Len(text_chunks)
    /\ text_chunks[lc_i + 1].cleaned_tokens < MIN_CHUNK_TOKENS
    /\ lc_i' = lc_i + 1
    /\ UNCHANGED <<lc_pc, slug, text_chunks, temp_chunks, lc_chunks, ac_vars>>

\* lines 68-83: the chunk is kept
FirstPassKeep ==
    /\ lc_pc = "first"
    /\ lc_i < Len(text_chunks)
    /\ ~(text_chunks[lc_i + 1].cleaned_tokens < MIN_CHUNK_TOKENS)
    /\ temp_chunks' = Append(temp_chunks,
           [content |-> text_chunks[lc_i + 1].chunk_text,
            markdown_content |-> text_chunks[lc_i + 1].chunk_text,
            chunk_num |-> ChunkNum(lc_i, temp_chunks)])
    /\ lc_i' = lc_i + 1
    /\ UNCHANGED <<lc_pc, slug, text_chunks, lc_chunks, ac_vars>>

\* the first loop is over; lines 86-87
FirstPassEnd ==
    /\ lc_pc = "first"
    /\ lc_i >= Len(text_chunks)
    /\ lc_pc' = "second"
    /\ lc_i' = 0
    /\ UNCHANGED <<slug, text_chunks, temp_chunks, lc_chunks, ac_vars>>

\* lines 89-105: one iteration of the second loop
SecondPass ==
    /\ lc_pc = "second"
    /\ lc_i < Len(temp_chunks)
    /\ LET parent_id == ParentId("post", slug)
           prev_id == IF lc_i > 0 THEN ChunkId(parent_id, lc_i - 1) ELSE None
           next_id == IF lc_i < Len(temp_chunks) - 1
                      THEN ChunkId(parent_id, lc_i + 1) ELSE None
           temp_chunk == temp_chunks[lc_i + 1]
       IN  lc_chunks' = Append(lc_chunks,
               create_chunk(temp_chunk.content, slug, temp_chunk.chunk_num, "post",
                            prev_id, next_id, temp_chunk.markdown_content))
    /\ lc_i' = lc_i + 1
    /\ UNCHANGED <<lc_pc, slug, text_chunks, temp_chunks, ac_vars>>

\* line 107: return chunks
SecondPassEnd ==
    /\ lc_pc = "second"
    /\ lc_i >= Len(temp_chunks)
    /\ lc_pc' = "done"
    /\ UNCHANGED <<slug, text_chunks, lc_i, temp_chunks, lc_chunks, ac_vars>>

NextLC ==
    \/ FirstPassSkip
    \/ FirstPassKeep
    \/ FirstPassEnd
    \/ SecondPass
    \/ SecondPassEnd

SpecLC == InitLC /\ [][NextLC]_vars

----------------------------------------------------------------------------
(* Vocabulary of the claims *)

\* the words of the texts of a list, in order
RECURSIVE AllWords(_)
AllWords(list) ==
    IF list = <<>> THEN <<>> ELSE Words(Head(list)) \o AllWords(Tail(list))

\* the texts of the chunks as flushed
PackedTexts == [k \in 1..Len(packed) |-> packed[k].text]

\* every piece the decomposition returned is within max_tokens
PiecesWithinMax ==
    \A k \in 1..Len(pieces0) : ~_too_big(pieces0[k], max_tokens)

\* the number of fences of s from index k on, read left to right
RECURSIVE FenceCount(_, _)
FenceCount(s, k) ==
    IF FenceFrom(s, k) = 0 THEN 0 ELSE 1 + FenceCount(s, FenceFrom(s, k) + 3)

\* every fence of s opens or closes a block that lies whole in s
FencesPairUp(s) == FenceCount(s, 1) % 2 = 0

\* the text holds a fenced code block
HasBlock(s) == FenceCount(s, 1) >= 2

\* the units the structural splitters cut the text into
Units == SplitUnits(text, Splitters(structure), max_tokens)

\* the text is empty or all blank
Blank(s) == Strip(s) = <<>>

\* the run of adaptive_chunk is over: it returned, or it raised
Over == pc \in {"done", "MemoryError"}

----------------------------------------------------------------------------
(* Claims about adaptive_chunk *)

\* C1: every chunk the packer flushes has a recorded count n_tokens (the
\* count of the joined text) of at most max_tokens, unless the chunk is one
\* piece that is a single word.
C1_ChunkWithinMax ==
    \A k \in 1..Len(packed) :
        \/ packed[k].n_tokens <= max_tokens
        \/ Len(packed[k].pieces) = 1 /\ Len(Words(packed[k].text)) = 1

\* C2 as stated: when every piece is within max_tokens, every chunk but the
\* last has a count of at least min_tokens.
C2_NonFinalAtLeastMin ==
    PiecesWithinMax =>
        \A k \in 1..(Len(packed) - 1) : packed[k].n_tokens >= min_tokens

\* C2 as amended: when every piece is within max_tokens, every chunk but the
\* last was flushed because the next piece did not fit: the running count of
\* its pieces plus the count of the first piece of the next chunk exceeds
\* max_tokens.  (Such a chunk may be under min_tokens.)
C2_NonFinalFlushedOnOverflow ==
    PiecesWithinMax =>
        \A k \in 1..(Len(packed) - 1) :
            packed[k].sum + count_tokens(packed[k + 1].pieces[1]) > max_tokens

\* a finished run with an undersized chunk that is not the last one
C2_Witness ==
    /\ pc = "done"
    /\ PiecesWithinMax
    /\ Len(packed) >= 2
    /\ packed[1].n_tokens < min_tokens

\* C3: when the run of the packer is over, the chunks as flushed hold the
\* words of the pieces, each once and in the order of the pieces.
C3_EveryPieceInOneChunk ==
    Over => AllWords(PackedTexts) = AllWords(pieces0)

\* C4: the packing loop reaches the end of the piece list: an iteration that
\* meets a piece the hard cut cannot reduce (it is over max_tokens and
\* _hard_cut returns it unchanged) accepts it, so that fewer pieces are left
\* to read after the iteration than before it.
C4_IrreducibleAccepted ==
    [][(/\ pc = "pack"
        /\ i < Len(parts)
        /\ _too_big(piece, max_tokens)
        /\ _hard_cut(piece, max_tokens) = <<piece>>)
       => (pc' = "pack" /\ Len(parts') - i' < Len(parts) - i)]_vars

\* C6: after the overlap pass chunk 0 has its packed text, and every later
\* chunk has its packed text with the last overlap_sentences sentences of
\* the packed text of the chunk before it in front.
C6_OverlapFromPackedText ==
    (pc \in {"meta", "done"} /\ overlap_sentences > 0 /\ Len(chunks) > 1) =>
        /\ chunks[1].text = packed[1].text
        /\ \A k \in 2..Len(chunks) :
              chunks[k].text =
                  Overlapped(packed[k - 1].text, packed[k].text, overlap_sentences)

\* C7: under the markdown profile, for a text whose fences pair up into
\* blocks, every unit the heading, paragraph and sentence splitters produce
\* holds whole blocks only: no cut of theirs falls inside a block.
C7_FenceAtomic ==
    (pc # "split" /\ pc # "idle" /\ structure = "markdown"
        /\ HasBlock(text) /\ FencesPairUp(text)) =>
        \A k \in 1..Len(Units) : FencesPairUp(Units[k].unit)

\* C9: for an empty or all-blank text the run raises nothing, never enters
\* the overlap pass, finds no piece and returns no chunk.
C9_BlankTextNoChunks ==
    Blank(text) =>
        /\ pc \notin {"MemoryError", "overlap"}
        /\ pieces0 = <<>>
        /\ chunks = <<>>

\* a finished run on a text of blanks, under a profile and with overlap
C9_Witness ==
    /\ pc = "done"
    /\ Blank(text)
    /\ text # <<>>
    /\ overlap_sentences > 0
    /\ structure = "code"

\* C10: every piece the decomposition returns is within max_tokens unless it
\* is a single word.
C10_PiecesWithinMaxOrOneWord ==
    \A k \in 1..Len(pieces0) :
        \/ count_tokens(pieces0[k]) <= max_tokens
        \/ Len(Words(pieces0[k])) = 1

----------------------------------------------------------------------------
(* Claims about chunk_content_with_langchain *)

\* C5: the N records returned have the ids post:<slug>::ch0 .. ch(N-1) and
\* the chunk numbers 0 .. N-1; the first has no prev_id, the last no next_id,
\* and each record's next_id is the id of the record after it, whose prev_id
\* is the record's id.
C5_SequentialLinkage ==
    lc_pc = "done" =>
        LET N == Len(lc_chunks)
        IN  \A k \in 1..N :
              /\ lc_chunks[k].id = ChunkId(ParentId("post", slug), k - 1)
              /\ lc_chunks[k].chunk_number = k - 1
              /\ (k = 1 => lc_chunks[k].prev_id = None)
              /\ (k = N => lc_chunks[k].next_id = None)
              /\ (k < N => /\ lc_chunks[k].next_id = lc_chunks[k + 1].id
                           /\ lc_chunks[k + 1].prev_id = lc_chunks[k].id)

\* a finished run that returned three records and skipped a text chunk that
\* stood before the last one kept
C5_Witness ==
    /\ lc_pc = "done"
    /\ Len(lc_chunks) = 3
    /\ Len(text_chunks) = 4
    /\ text_chunks[4].cleaned_tokens >= MIN_CHUNK_TOKENS

\* C8: every text chunk of the splitter yields one record: the records
\* returned are as many as the text chunks, and record k shows text chunk k.
C8_NoChunkDropped ==
    lc_pc = "done" =>
        /\ Len(lc_chunks) = Len(text_chunks)
        /\ \A k \in 1..Len(lc_chunks) :
              lc_chunks[k].display_markdown = text_chunks[k].chunk_text

\* the values of min_tokens a second run of the packer is given
MinTokensValues == 0..(MaxTokens + 1)

\* one step of the packer loop (lines 126-154) run with mn as min_tokens
PackStepWith(mn) ==
    PackOversize \/ PackAppend \/ PackOverflowWith(mn) \/ FinalFlush

\* C11: the output of the packer does not depend on min_tokens.  Every step
\* the packer takes, from any state it reaches, is the very step it takes
\* from that state when it is given any other value of min_tokens: the same
\* buf, buf_tokens, i, parts and chunks follow.  Two runs that differ only
\* in min_tokens therefore move in lock step and emit the same chunks in the
\* same order.
C11_PackerIgnoresMinTokens ==
    [][pc = "pack" => \A m \in MinTokensValues : PackStepWith(m)]_vars

\* the look-ahead branch was entered: a chunk that is not the last one was
\* flushed on an overflow while the buffer was under min_tokens, though not
\* under every other value of min_tokens
C11_Witness ==
    /\ pc = "pack"
    /\ Len(packed) >= 1
    /\ buf = <<>>
    /\ i < Len(parts)
    /\ packed[Len(packed)].sum < min_tokens
    /\ \E m \in MinTokensValues : packed[Len(packed)].sum >= m

====
